---- MODULE Spec2Model ----
(***************************************************************************)
(* Model of captcha.py: the anti-captcha.com client binding.               *)
(*                                                                         *)
(* Python values are tagged records [t |-> type, v |-> value]; a dict is   *)
(* a function whose domain is its key set.  Wire strings are atoms; the    *)
(* text produced by base64 encoding is a sequence of characters, so that   *)
(* it can be decoded again.                                                *)
(*                                                                         *)
(* Every Service Client operation blocks in requests.post.  The model has  *)
(* one step per operation up to and including the POST (X_call) and one    *)
(* step from the reply to the return or raise (X_done), so that calls of   *)
(* concurrent callers overlap.                                             *)
(***************************************************************************)
EXTENDS Integers, Sequences, FiniteSets, TLC

VARIABLES client_key, soft_id, task, heap, builds, init_call,
          inflight, last, create_calls, create_posts

vars == <<client_key, soft_id, task, heap, builds, init_call,
          inflight, last, create_calls, create_posts>>

(***************************************************************************)
(* Bounds                                                                  *)
(***************************************************************************)
MaxImageLen == 3
MaxBuilds == 2
MaxCreate == 2
NumCallers == 2

(***************************************************************************)
(* Python values                                                           *)
(***************************************************************************)
None == [t |-> "None"]

BoolV(b) == [t |-> "bool", v |-> b]

IntV(n) == [t |-> "int", v |-> n]

StrV(s) == [t |-> "str", v |-> s]

FloatV(s) == [t |-> "float", v |-> s]

DictV(d) == [t |-> "dict", v |-> d]

EmptyDict == [k \in {} |-> None]

DictSet(d, k, x) == [j \in DOMAIN d \cup {k} |-> IF j = k THEN x ELSE d[j]]

DictDel(d, k) == [j \in DOMAIN d \ {k} |-> d[j]]

\* dict.update(other)
DictUpdate(d, other) ==
    [j \in DOMAIN d \cup DOMAIN other |-> IF j \in DOMAIN other THEN other[j] ELSE d[j]]

\* Truth value of an object in an `if`: None, False, 0 and "" are false;
\* a member of a plain Enum is true whatever its value.
Truthy(x) ==
    CASE x.t = "None" -> FALSE
      [] x.t = "bool" -> x.v
      [] x.t = "int" -> x.v # 0
      [] x.t = "str" -> Len(x.v) # 0
      [] OTHER -> TRUE

(***************************************************************************)
(* Enumerations                                                            *)
(***************************************************************************)
HOST_ADDRESS == "https://api.anti-captcha.com/"

Queue == [STANDARD_ENG |-> 1, STANDARD_RUS |-> 1, RECAPTCHA |-> 5,
          RECAPTCHA_PROXYLESS |-> 6, FUNCAPTCHA |-> 7, FUNCAPTCHA_PROXYLESS |-> 8]

Numeric == [NO_REQUIREMENTS |-> 0, ONLY_NUMBERS |-> 1, ONLY_LETTERS |-> 2]

LanguagePool == [ENGLISH |-> "en", RUSSIAN |-> "rn"]

\* an enum member as a Python object
Member(enum, name) == [t |-> enum, v |-> name]

\* member.value
NumericValue(m) == IntV(Numeric[m.v])

QueueValue(m) == IntV(Queue[m.v])

LanguagePoolValue(m) == StrV(LanguagePool[m.v])

(***************************************************************************)
(* base64.b64encode(...).decode()                                          *)
(***************************************************************************)
B64Alphabet ==
    <<"A","B","C","D","E","F","G","H","I","J","K","L","M","N","O","P",
      "Q","R","S","T","U","V","W","X","Y","Z","a","b","c","d","e","f",
      "g","h","i","j","k","l","m","n","o","p","q","r","s","t","u","v",
      "w","x","y","z","0","1","2","3","4","5","6","7","8","9","+","/">>

B64Char(i) == B64Alphabet[i + 1]

\* the encoding without the trailing "=" padding
RECURSIVE b64encode_nopad(_)
b64encode_nopad(bs) ==
    IF Len(bs) = 0 THEN <<>>
    ELSE IF Len(bs) = 1 THEN
        <<B64Char(bs[1] \div 4), B64Char((bs[1] % 4) * 16)>>
    ELSE IF Len(bs) = 2 THEN
        <<B64Char(bs[1] \div 4),
          B64Char((bs[1] % 4) * 16 + bs[2] \div 16),
          B64Char((bs[2] % 16) * 4)>>
    ELSE
        <<B64Char(bs[1] \div 4),
          B64Char((bs[1] % 4) * 16 + bs[2] \div 16),
          B64Char((bs[2] % 16) * 4 + bs[3] \div 64),
          B64Char(bs[3] % 64)>> \o b64encode_nopad(SubSeq(bs, 4, Len(bs)))

RECURSIVE b64encode(_)
b64encode(bs) ==
    IF Len(bs) = 0 THEN <<>>
    ELSE IF Len(bs) = 1 THEN
        <<B64Char(bs[1] \div 4), B64Char((bs[1] % 4) * 16), "=", "=">>
    ELSE IF Len(bs) = 2 THEN
        <<B64Char(bs[1] \div 4),
          B64Char((bs[1] % 4) * 16 + bs[2] \div 16),
          B64Char((bs[2] % 16) * 4), "=">>
    ELSE
        <<B64Char(bs[1] \div 4),
          B64Char((bs[1] % 4) * 16 + bs[2] \div 16),
          B64Char((bs[2] % 16) * 4 + bs[3] \div 64),
          B64Char(bs[3] % 64)>> \o b64encode(SubSeq(bs, 4, Len(bs)))

(***************************************************************************)
(* Task                                                                    *)
(***************************************************************************)
\* An HTTP GET either raises (connection, DNS, TLS) or yields a response
\* whose body is read whatever its status code.
GetRaises == [kind |-> "raise", exc |-> "RequestException"]

GetResponse(status, content) == [kind |-> "response", status |-> status, content |-> content]

\* Task.__init__
Task_init(task_type) == "type" :> StrV(task_type)

\* Task.base64_encode, given the outcome of requests.get(url)
base64_encode(got) == StrV(b64encode(got.content))

\* build keeping the entries whose value is true instead of not None
build_falsy(data) ==
    [k \in {j \in DOMAIN data : Truthy(data[j])} |-> data[k]]

\* Task.build: copy the entries whose value is not None into a new dict.

build(data) ==
    [k \in {j \in DOMAIN data : data[j] # None} |-> data[k]]

\* ImageToTextTask.__init__ after the fetch returned: the dict stored in
\* self.data
ImageToTextTask_data(got, phrase, case, numeric, math, min_length, max_length) ==
    DictUpdate(Task_init("ImageToTextTask"),
        [body |-> base64_encode(got),
         phrase |-> phrase,
         case |-> case,
         numeric |-> IF Truthy(numeric) THEN NumericValue(numeric) ELSE None,
         math |-> math,
         minLength |-> min_length,
         maxLength |-> max_length])

NoCall == [op |-> "none"]

\* ImageToTextTask(image_url, ...): one GET; if it raises, the exception
\* leaves the constructor and no object exists.  The model follows one
\* construction.
ImageToTextTask_init(got, phrase, case, numeric, math, min_length, max_length) ==
    /\ init_call = NoCall
    /\ init_call' = [op |-> "ImageToTextTask", gets |-> 1, got |-> got,
                     args |-> [phrase |-> phrase, case |-> case, numeric |-> numeric,
                               math |-> math, minLength |-> min_length,
                               maxLength |-> max_length],
                     raised |-> IF got.kind = "raise" THEN got.exc ELSE "",
                     self |-> IF got.kind = "raise" THEN 0 ELSE Len(heap) + 1]
    /\ IF got.kind = "raise"
       THEN UNCHANGED <<task, heap>>
       ELSE /\ heap' = Append(heap, ImageToTextTask_data(got, phrase, case, numeric,
                                        math, min_length, max_length))
            /\ task' = Len(heap) + 1
    /\ UNCHANGED <<client_key, soft_id, builds, inflight, last, create_calls, create_posts>>

\* build() handing out self.data itself instead of a new dict
Task_build_alias ==
    /\ task # 0
    /\ Len(builds) < MaxBuilds
    /\ builds' = Append(builds, [ref |-> task, value |-> heap[task]])
    /\ UNCHANGED <<client_key, soft_id, task, heap, init_call, inflight, last,
                   create_calls, create_posts>>

\* The caller calls task.build() and keeps the returned dict: a new object
\* on the heap.  builds records each returned reference and its value at
\* the time of the return.
Task_build ==
    /\ task # 0
    /\ Len(builds) < MaxBuilds
    /\ heap' = Append(heap, build(heap[task]))
    /\ builds' = Append(builds, [ref |-> Len(heap) + 1, value |-> build(heap[task])])
    /\ UNCHANGED <<client_key, soft_id, task, init_call, inflight, last,
                   create_calls, create_posts>>

(***************************************************************************)
(* AntiCaptchaService                                                      *)
(***************************************************************************)
Callers == 1..NumCallers

\* Outcome of requests.post(...).json(): the POST raises, the body is not
\* JSON, or the body is a JSON object.
PostRaises == [kind |-> "raise", exc |-> "RequestException"]

NotJson == [kind |-> "notjson", exc |-> "JSONDecodeError"]

Json(body) == [kind |-> "json", body |-> body]

Return(x) == [kind |-> "return", value |-> x]

Raise(exc, msg) == [kind |-> "raise", exc |-> exc, msg |-> msg]

\* '{} ({}): {}'.format(errorId, errorCode, errorDescription)
ErrorMessage(response) ==
    ToString(response["errorId"].v) \o " (" \o response["errorCode"].v
        \o "): " \o response["errorDescription"].v

\* AntiCaptchaService.__request, from the outcome of the POST on: the
\* response dict with errorId removed, or the exception raised.  A missing
\* key in a subscript raises KeyError.
request(wire) ==
    IF wire.kind # "json" THEN Raise(wire.exc, "")
    ELSE LET response == wire.body IN
         IF "errorId" \in DOMAIN response
         THEN IF response["errorId"].v > 0
              THEN IF "errorCode" \notin DOMAIN response
                      THEN Raise("KeyError", "errorCode")
                   ELSE IF "errorDescription" \notin DOMAIN response
                      THEN Raise("KeyError", "errorDescription")
                   ELSE Raise("CaptchaException", ErrorMessage(response))
              ELSE Return(DictDel(response, "errorId"))
         ELSE Return(response)

\* r[key] on the dict returned by __request
Subscript(r, key) ==
    IF r.kind = "raise" THEN r
    ELSE IF key \in DOMAIN r.value THEN Return(r.value[key])
    ELSE Raise("KeyError", key)

\* get_balance
get_balance_data(ck) == "clientKey" :> StrV(ck)

get_balance_result(wire) == Subscript(request(wire), "balance")

\* get_queue_stats
get_queue_stats_data(ck, queue_id) ==
    ("clientKey" :> StrV(ck)) @@ ("queueId" :> QueueValue(queue_id))

get_queue_stats_result(wire) ==
    LET r == request(wire) IN
    IF r.kind = "raise" THEN r ELSE Return(DictV(r.value))

\* create_task; the first definition tests the optional values for truth
\* instead of comparing them with None
create_task_data_truthy(ck, sid, task_data, lang_pool, callback_url) ==
    LET data == [clientKey |-> StrV(ck), languagePool |-> LanguagePoolValue(lang_pool),
                 task |-> DictV(build(task_data))]
        data1 == IF Truthy(callback_url) THEN DictSet(data, "callbackUrl", callback_url)
                 ELSE data
    IN  IF Truthy(sid) THEN DictSet(data1, "softId", sid) ELSE data1

create_task_data(ck, sid, task_data, lang_pool, callback_url) ==
    LET data == [clientKey |-> StrV(ck), languagePool |-> LanguagePoolValue(lang_pool),
                 task |-> DictV(build(task_data))]
        data1 == IF callback_url # None THEN DictSet(data, "callbackUrl", callback_url)
                 ELSE data
    IN  IF sid # None THEN DictSet(data1, "softId", sid) ELSE data1

\* lang_pool: LanguagePool = LanguagePool.ENGLISH
Omitted == [t |-> "omitted"]

lang_pool_or_default(lang_pool) ==
    IF lang_pool = Omitted THEN Member("LanguagePool", "ENGLISH") ELSE lang_pool

create_task_result(wire) == Subscript(request(wire), "taskId")

\* get_task_result and report
task_id_data(ck, task_id) == ("clientKey" :> StrV(ck)) @@ ("taskId" :> task_id)

\* the comparison of report applied to get_task_result
get_task_result_success(wire) ==
    LET r == request(wire) IN
    IF r.kind = "raise" THEN r
    ELSE IF "status" \notin DOMAIN r.value THEN Raise("KeyError", "status")
    ELSE Return(DictV(DictSet(r.value, "status",
                              BoolV(r.value["status"] = StrV("success")))))

get_task_result_result(wire) ==
    LET r == request(wire) IN
    IF r.kind = "raise" THEN r
    ELSE IF "status" \notin DOMAIN r.value THEN Raise("KeyError", "status")
    ELSE Return(DictV(DictSet(r.value, "status",
                              BoolV(r.value["status"] = StrV("ready")))))

report_result(wire) ==
    LET r == Subscript(request(wire), "status") IN
    IF r.kind = "raise" THEN r ELSE Return(BoolV(r.value = StrV("success")))

\* requests.post(HOST_ADDRESS.format(method), json=data): the request in
\* flight for one invocation; posts counts the POSTs the invocation made.
Post(op, method, args, data) ==
    [op |-> op, url |-> HOST_ADDRESS \o method, method |-> method,
     args |-> args, data |-> data, posts |-> 1]

\* The invocation of caller c ends with outcome r.
Finish(c, wire, r) ==
    /\ last' = [op |-> inflight[c].op, posts |-> inflight[c].posts, wire |-> wire,
                 outcome |-> r]
    /\ inflight' = [inflight EXCEPT ![c] = NoCall]

get_balance_call(c) ==
    /\ inflight[c] = NoCall
    /\ inflight' = [inflight EXCEPT ![c] =
            Post("get_balance", "getBalance", <<>>, get_balance_data(client_key))]
    /\ UNCHANGED <<client_key, soft_id, task, heap, builds, init_call, last,
                   create_calls, create_posts>>

get_balance_done(c, wire) ==
    /\ inflight[c].op = "get_balance"
    /\ Finish(c, wire, get_balance_result(wire))
    /\ UNCHANGED <<client_key, soft_id, task, heap, builds, init_call,
                   create_calls, create_posts>>

get_queue_stats_call(c, queue_id) ==
    /\ inflight[c] = NoCall
    /\ inflight' = [inflight EXCEPT ![c] =
            Post("get_queue_stats", "getQueueStats", <<queue_id>>,
                 get_queue_stats_data(client_key, queue_id))]
    /\ UNCHANGED <<client_key, soft_id, task, heap, builds, init_call, last,
                   create_calls, create_posts>>

get_queue_stats_done(c, wire) ==
    /\ inflight[c].op = "get_queue_stats"
    /\ Finish(c, wire, get_queue_stats_result(wire))
    /\ UNCHANGED <<client_key, soft_id, task, heap, builds, init_call,
                   create_calls, create_posts>>

\* create_task consuming the soft identifier of the instance
create_task_call_forget(c, lang_pool, callback_url) ==
    /\ inflight[c] = NoCall
    /\ task # 0
    /\ create_calls < MaxCreate
    /\ create_calls' = create_calls + 1
    /\ create_posts' = create_posts + 1
    /\ inflight' = [inflight EXCEPT ![c] =
            Post("create_task", "createTask", <<task, lang_pool, callback_url>>,
                 create_task_data(client_key, soft_id, heap[task],
                                  lang_pool_or_default(lang_pool), callback_url))]
    /\ soft_id' = None
    /\ UNCHANGED <<client_key, task, heap, builds, init_call, last>>

create_task_call(c, lang_pool, callback_url) ==
    /\ inflight[c] = NoCall
    /\ task # 0
    /\ create_calls < MaxCreate
    /\ create_calls' = create_calls + 1
    /\ create_posts' = create_posts + 1
    /\ inflight' = [inflight EXCEPT ![c] =
            Post("create_task", "createTask", <<task, lang_pool, callback_url>>,
                 create_task_data(client_key, soft_id, heap[task],
                                  lang_pool_or_default(lang_pool), callback_url))]
    /\ UNCHANGED <<client_key, soft_id, task, heap, builds, init_call, last>>

\* create_task posting a second time after a failure
create_task_done_retry(c, wire) ==
    /\ inflight[c].op = "create_task"
    /\ IF create_task_result(wire).kind = "raise" /\ inflight[c].posts < 2
       THEN /\ inflight' = [inflight EXCEPT ![c].posts = @ + 1]
            /\ create_posts' = create_posts + 1
            /\ UNCHANGED last
       ELSE /\ Finish(c, wire, create_task_result(wire))
            /\ UNCHANGED create_posts
    /\ UNCHANGED <<client_key, soft_id, task, heap, builds, init_call, create_calls>>

create_task_done(c, wire) ==
    /\ inflight[c].op = "create_task"
    /\ Finish(c, wire, create_task_result(wire))
    /\ UNCHANGED <<client_key, soft_id, task, heap, builds, init_call,
                   create_calls, create_posts>>

get_task_result_call(c, task_id) ==
    /\ inflight[c] = NoCall
    /\ inflight' = [inflight EXCEPT ![c] =
            Post("get_task_result", "getTaskResult", <<task_id>>,
                 task_id_data(client_key, task_id))]
    /\ UNCHANGED <<client_key, soft_id, task, heap, builds, init_call, last,
                   create_calls, create_posts>>

get_task_result_done(c, wire) ==
    /\ inflight[c].op = "get_task_result"
    /\ Finish(c, wire, get_task_result_result(wire))
    /\ UNCHANGED <<client_key, soft_id, task, heap, builds, init_call,
                   create_calls, create_posts>>

report_call(c, task_id) ==
    /\ inflight[c] = NoCall
    /\ inflight' = [inflight EXCEPT ![c] =
            Post("report", "reportIncorrectImageCaptcha", <<task_id>>,
                 task_id_data(client_key, task_id))]
    /\ UNCHANGED <<client_key, soft_id, task, heap, builds, init_call, last,
                   create_calls, create_posts>>

report_done(c, wire) ==
    /\ inflight[c].op = "report"
    /\ Finish(c, wire, report_result(wire))
    /\ UNCHANGED <<client_key, soft_id, task, heap, builds, init_call,
                   create_calls, create_posts>>

\* The caller changes a dict that build() returned to it: d[k] = x
CallerSet(i, k, x) ==
    /\ i \in 1..Len(builds)
    /\ heap' = [heap EXCEPT ![builds[i].ref] = DictSet(@, k, x)]
    /\ heap' # heap
    /\ UNCHANGED <<client_key, soft_id, task, builds, init_call, inflight, last,
                   create_calls, create_posts>>

\* del d[k]
CallerDel(i, k) ==
    /\ i \in 1..Len(builds)
    /\ k \in DOMAIN heap[builds[i].ref]
    /\ heap' = [heap EXCEPT ![builds[i].ref] = DictDel(@, k)]
    /\ UNCHANGED <<client_key, soft_id, task, builds, init_call, inflight, last,
                   create_calls, create_posts>>

(***************************************************************************)
(* Inputs                                                                  *)
(***************************************************************************)
Bytes == {0, 77, 255}

Contents == UNION {[1..n -> Bytes] : n \in 0..MaxImageLen}

Statuses == {200, 404}

Fetches == {GetRaises} \cup {GetResponse(s, bs) : s \in Statuses, bs \in Contents}

OptBool == {None, BoolV(FALSE), BoolV(TRUE)}

OptFlag == {None, BoolV(FALSE)}

OptNumeric == {None} \cup {Member("Numeric", n) : n \in DOMAIN Numeric}

OptLength == {None, IntV(0), IntV(4)}

ClientKeys == {"key-a"}

SoftIds == {None, IntV(0)}

Queues == {Member("Queue", n) : n \in {"STANDARD_RUS", "RECAPTCHA"}}

\* (lang_pool, callback_url) of the concurrent create_task calls
CreateArgs ==
    {<<Omitted, None>>,
     <<Member("LanguagePool", "RUSSIAN"), StrV("")>>,
     <<Member("LanguagePool", "ENGLISH"), StrV("https://cb.example/")>>}

TaskIds == {IntV(42)}

\* a dict with at most the key k
Opt(k, values) == {EmptyDict} \cup {k :> x : x \in values}

Payloads ==
    {b @@ s @@ i :
        b \in Opt("balance", {FloatV("12.5")}),
        s \in Opt("status", {StrV("processing"), StrV("success")})
               \cup {[status |-> StrV("ready"), solution |-> StrV("text"),
                      cost |-> FloatV("0.0007")]},
        i \in Opt("taskId", {IntV(42)})}

JsonBodies ==
    {e @@ c @@ d @@ p :
        e \in Opt("errorId", {IntV(0), IntV(1)}),
        c \in Opt("errorCode", {StrV("ERROR_X")}),
        d \in Opt("errorDescription", {StrV("bad")}),
        p \in Payloads}

Wires == {PostRaises, NotJson} \cup {Json(b) : b \in JsonBodies}

FewWires ==
    {PostRaises, NotJson,
     Json([errorId |-> IntV(1), errorCode |-> StrV("ERROR_X"),
           errorDescription |-> StrV("bad")]),
     Json([errorId |-> IntV(0), balance |-> FloatV("12.5"), taskId |-> IntV(42),
           status |-> StrV("ready")])}

(***************************************************************************)
(* Specifications                                                          *)
(***************************************************************************)
InitWith(keys, sids) ==
    /\ client_key \in keys
    /\ soft_id \in sids
    /\ task = 0
    /\ heap = <<>>
    /\ builds = <<>>
    /\ init_call = NoCall
    /\ inflight = [c \in Callers |-> NoCall]
    /\ last = NoCall
    /\ create_calls = 0
    /\ create_posts = 0

Init == InitWith(ClientKeys, SoftIds)

\* Concurrent callers of one client
Next ==
    \/ \E got \in {GetRaises, GetResponse(200, <<77>>)} :
            ImageToTextTask_init(got, BoolV(FALSE), None, None, None, None, None)
    \/ \E c \in Callers : get_balance_call(c)
    \/ \E c \in Callers, wire \in FewWires : get_balance_done(c, wire)
    \/ \E c \in Callers : get_queue_stats_call(c, Member("Queue", "STANDARD_RUS"))
    \/ \E c \in Callers, wire \in FewWires : get_queue_stats_done(c, wire)
    \/ \E c \in Callers, a \in CreateArgs : create_task_call(c, a[1], a[2])
    \/ \E c \in Callers, wire \in FewWires : create_task_done(c, wire)
    \/ \E c \in Callers, id \in TaskIds : get_task_result_call(c, id)
    \/ \E c \in Callers, wire \in FewWires : get_task_result_done(c, wire)
    \/ \E c \in Callers, id \in TaskIds : report_call(c, id)
    \/ \E c \in Callers, wire \in FewWires : report_done(c, wire)

Spec == Init /\ [][Next]_vars

\* One caller, every wire response
InitWire == InitWith(ClientKeys, {None})

NextWire ==
    \/ ImageToTextTask_init(GetResponse(200, <<77>>), None, None, None, None, None, None)
    \/ get_balance_call(1)
    \/ \E wire \in Wires : get_balance_done(1, wire)
    \/ \E q \in Queues : get_queue_stats_call(1, q)
    \/ \E wire \in Wires : get_queue_stats_done(1, wire)
    \/ create_task_call(1, Omitted, None)
    \/ \E wire \in Wires : create_task_done(1, wire)
    \/ \E id \in TaskIds : get_task_result_call(1, id)
    \/ \E wire \in Wires : get_task_result_done(1, wire)
    \/ \E id \in TaskIds : report_call(1, id)
    \/ \E wire \in Wires : report_done(1, wire)

SpecWire == InitWire /\ [][NextWire]_vars

\* Construction and build() of a task
InitTask == InitWith(ClientKeys, {None})

NextTask ==
    \/ /\ init_call = NoCall
       /\ \E got \in Fetches, phrase \in OptBool, case \in OptFlag,
             numeric \in OptNumeric, math \in OptFlag, min_length \in OptLength,
             max_length \in OptLength :
               ImageToTextTask_init(got, phrase, case, numeric, math, min_length,
                                    max_length)
    \/ Task_build

SpecTask == InitTask /\ [][NextTask]_vars

\* A task, the dicts build() returned, and create_task
InitHeap == InitWith(ClientKeys, SoftIds)

ModKeys == {"body", "extra"}

NextHeap ==
    \/ \E got \in {GetRaises, GetResponse(200, <<>>), GetResponse(200, <<77>>)},
          phrase \in OptFlag, min_length \in {None, IntV(0)} :
            ImageToTextTask_init(got, phrase, None, None, None, min_length, None)
    \/ Task_build
    \/ \E i \in 1..MaxBuilds, k \in ModKeys : CallerSet(i, k, IntV(9))
    \/ \E i \in 1..MaxBuilds, k \in ModKeys : CallerDel(i, k)
    \/ \E cb \in {None, StrV("")} : create_task_call(1, Omitted, cb)
    \/ \E wire \in FewWires : create_task_done(1, wire)

SpecHeap == InitHeap /\ [][NextHeap]_vars

(***************************************************************************)
(* Properties                                                              *)
(***************************************************************************)
Completed == last # NoCall

JsonReply == Completed /\ last.wire.kind = "json"

HasErrorId == JsonReply /\ "errorId" \in DOMAIN last.wire.body

TransportErrors == {"RequestException", "JSONDecodeError"}

\* C1: every operation that receives a response with errorId > 0 fails with
\* CaptchaException, whatever other fields the response has or lacks.
C1_PositiveErrorIdRaisesCaptchaException ==
    (HasErrorId /\ last.wire.body["errorId"].v > 0)
        => (last.outcome.kind = "raise" /\ last.outcome.exc = "CaptchaException")

\* C2: every operation either returns or fails as the service error or as a
\* transport error; no third kind of failure is reachable.
C2_NoThirdKindOfFailure ==
    Completed =>
        \/ last.outcome.kind = "return"
        \/ last.outcome.exc \in {"CaptchaException"} \cup TransportErrors

\* C3: every invocation sends exactly one POST, whatever its outcome, and the
\* number of createTask requests equals the number of create_task calls.
C3_OnePostPerInvocation ==
    /\ \A c \in Callers : inflight[c] # NoCall => inflight[c].posts = 1
    /\ Completed => last.posts = 1
    /\ create_posts = create_calls

C3_Witness ==
    /\ Completed
    /\ last.op = "create_task"
    /\ last.outcome.kind = "raise"
    /\ create_calls >= 2
    /\ \A c \in Callers : inflight[c] = NoCall

\* C4: a response with errorId = 0 makes the operation succeed, and the
\* value returned holds no errorId key.
C4_ZeroErrorIdSucceedsStripped ==
    (HasErrorId /\ last.wire.body["errorId"].v = 0)
        => /\ last.outcome.kind = "return"
           /\ last.outcome.value.t = "dict" => "errorId" \notin DOMAIN last.outcome.value.v

\* the optional fields of an ImageToTextTask payload
WireFields == {"phrase", "case", "numeric", "math", "minLength", "maxLength"}

\* C5: build() holds exactly type, body and the optional fields the caller
\* supplied, each with the value supplied (False and 0 included, numeric as
\* its wire code), and never a None.
C5_BuildHoldsExactlySuppliedFields ==
    \A i \in 1..Len(builds) :
        LET b == builds[i].value
            a == init_call.args
        IN  /\ DOMAIN b = {"type", "body"} \cup {k \in WireFields : a[k] # None}
            /\ b["type"] = StrV("ImageToTextTask")
            /\ b["body"] = heap[task]["body"]
            /\ \A k \in DOMAIN b : b[k] # None
            /\ \A k \in (WireFields \ {"numeric"}) \cap DOMAIN b : b[k] = a[k]
            /\ "numeric" \in DOMAIN b => b["numeric"] = IntV(Numeric[a["numeric"].v])

C5_Witness ==
    /\ Len(builds) >= 1
    /\ init_call.args["phrase"] = BoolV(FALSE)
    /\ init_call.args["numeric"] = Member("Numeric", "NO_REQUIREMENTS")
    /\ init_call.args["minLength"] = IntV(0)
    /\ init_call.args["maxLength"] = None
    /\ DOMAIN builds[1].value = {"type", "body", "phrase", "numeric", "minLength"}

\* C6 as stated: the record get_task_result returns has a field `ready`,
\* true exactly when the wire status is "ready".
C6_ReadyField ==
    (Completed /\ last.op = "get_task_result" /\ last.outcome.kind = "return")
        => /\ "ready" \in DOMAIN last.outcome.value.v
           /\ last.outcome.value.v["ready"]
                = BoolV(last.wire.body["status"] = StrV("ready"))

\* C6 amended: the record get_task_result returns has under `status` the
\* boolean that is true exactly when the wire status is "ready"; it has no
\* field `ready`; every other field of the response except errorId is
\* returned unchanged.
C6_StatusFieldIsReadiness ==
    (Completed /\ last.op = "get_task_result" /\ last.outcome.kind = "return")
        => LET d == last.outcome.value.v
               body == last.wire.body
           IN  /\ d["status"] = BoolV(body["status"] = StrV("ready"))
               /\ "ready" \notin DOMAIN d
               /\ DOMAIN d = DOMAIN body \ {"errorId"}
               /\ \A k \in DOMAIN d \ {"status"} : d[k] = body[k]

C6_Witness ==
    /\ Completed
    /\ last.op = "get_task_result"
    /\ last.outcome.kind = "return"
    /\ last.wire.body["status"] = StrV("ready")
    /\ last.outcome.value.v["status"] = BoolV(TRUE)
    /\ "solution" \in DOMAIN last.outcome.value.v
    /\ "errorId" \in DOMAIN last.wire.body

\* C7: the body create_task sends holds clientKey, languagePool (English by
\* default) and task = task.build(); callbackUrl iff a callback URL was
\* passed; softId iff the client has a soft identifier (0 included); nothing
\* else.
C7_CreateTaskRequestBody ==
    \A c \in Callers :
        inflight[c].op = "create_task" =>
            LET d == inflight[c].data
                lp == inflight[c].args[2]
                cb == inflight[c].args[3]
                stored == heap[inflight[c].args[1]]
            IN  /\ DOMAIN d = {"clientKey", "languagePool", "task"}
                        \cup (IF cb # None THEN {"callbackUrl"} ELSE {})
                        \cup (IF soft_id # None THEN {"softId"} ELSE {})
                /\ d["clientKey"] = StrV(client_key)
                /\ d["languagePool"]
                        = StrV(IF lp = Omitted THEN "en" ELSE LanguagePool[lp.v])
                /\ d["task"] = DictV([k \in {j \in DOMAIN stored : stored[j] # None}
                                        |-> stored[k]])
                /\ cb # None => d["callbackUrl"] = cb
                /\ soft_id # None => d["softId"] = soft_id

C7_Witness ==
    \E c \in Callers :
        /\ inflight[c].op = "create_task"
        /\ soft_id = IntV(0)
        /\ inflight[c].args[2] = Member("LanguagePool", "RUSSIAN")
        /\ inflight[c].args[3] = StrV("")
        /\ "phrase" \in DOMAIN inflight[c].data["task"].v

\* C8: no step of any operation, in any interleaving of concurrent callers,
\* changes the client's API key or soft identifier, and every request in
\* flight carries those credentials.
C8_ClientStateNeverChanges ==
    [][/\ client_key' = client_key
       /\ soft_id' = soft_id
       /\ \A c \in Callers :
            inflight'[c] # NoCall =>
                /\ inflight'[c].data["clientKey"] = StrV(client_key)
                /\ "softId" \in DOMAIN inflight'[c].data
                        => inflight'[c].data["softId"] = soft_id]_vars

C8_Witness ==
    /\ \A c \in Callers : inflight[c] # NoCall
    /\ \E c \in Callers : inflight[c].op = "create_task"
    /\ Completed
    /\ last.outcome.kind = "raise"
    /\ soft_id = IntV(0)

\* Decoding of base64 text (RFC 4648), to read back what was encoded
B64Index(ch) == CHOOSE i \in 0..63 : B64Alphabet[i + 1] = ch

IsB64Text(cs) ==
    /\ Len(cs) % 4 = 0
    /\ \A i \in 1..Len(cs) :
          \/ \E j \in 1..64 : B64Alphabet[j] = cs[i]
          \/ cs[i] = "=" /\ i > Len(cs) - 2 /\ (i = Len(cs) \/ cs[i + 1] = "=")

RECURSIVE B64Decode(_)
B64Decode(cs) ==
    IF Len(cs) = 0 THEN <<>>
    ELSE LET a == B64Index(cs[1])
             b == B64Index(cs[2])
             rest == B64Decode(SubSeq(cs, 5, Len(cs)))
         IN  IF cs[3] = "=" THEN <<a * 4 + b \div 16>>
             ELSE IF cs[4] = "=" THEN
                 <<a * 4 + b \div 16, (b % 16) * 16 + B64Index(cs[3]) \div 4>>
             ELSE <<a * 4 + b \div 16,
                    (b % 16) * 16 + B64Index(cs[3]) \div 4,
                    (B64Index(cs[3]) % 4) * 64 + B64Index(cs[4])>> \o rest

\* C9: constructing an ImageToTextTask performs one fetch; if the fetch
\* succeeds, body is the base64 text of the response body; if it raises, the
\* constructor raises the transport error and no task exists.
C9_ConstructionFetchesAndEncodes ==
    init_call # NoCall =>
        /\ init_call.gets = 1
        /\ IF init_call.got.kind = "raise"
           THEN /\ init_call.raised = "RequestException"
                /\ task = 0
                /\ heap = <<>>
           ELSE /\ init_call.raised = ""
                /\ task # 0
                /\ heap[task]["body"].t = "str"
                /\ IsB64Text(heap[task]["body"].v)
                /\ B64Decode(heap[task]["body"].v) = init_call.got.content

C9_Witness ==
    /\ task # 0
    /\ init_call.got.content = <<77, 255>>
    /\ heap[task]["body"].v = <<"T", "f", "8", "=">>

\* C10: no step after construction changes the task's stored fields; every
\* build() returns a new dict, equal to the first one returned, whatever the
\* caller has done to the dicts returned before and whatever create_task
\* calls have been made.
C10_BuildAndCreateTaskLeaveTaskUnchanged ==
    [][/\ task # 0 => (task' = task /\ heap'[task] = heap[task])
       /\ \A i \in 1..Len(builds') :
            /\ builds'[i].value = builds'[1].value
            /\ builds'[i].ref # task'
            /\ \A j \in 1..Len(builds') : builds'[i].ref = builds'[j].ref => i = j]_vars

C10_Witness ==
    /\ Len(builds) = 2
    /\ heap[builds[1].ref] # builds[1].value
    /\ heap[builds[2].ref] = builds[2].value
    /\ Completed
    /\ last.op = "create_task"
    /\ last.outcome.kind = "raise"

====
